---- MODULE Spec2Model ----
(***************************************************************************)
(* Model of the ingestion pipeline (src/src/populate_database.py) and of   *)
(* the question handler (src/app.py) of rag_legislacion.                   *)
(*                                                                         *)
(* Specifications:                                                         *)
(*   Spec          ingestion runs (main of populate_database.py) against   *)
(*                 one shared index service                                *)
(*   SpecUpsert    the batch loop of add_to_pinecone on long chunk lists   *)
(*   SpecSanitize  to_ascii_id on bounded strings                          *)
(*   SpecDedup     load_new_documents on bounded document lists            *)
(*   SpecApp       the Streamlit script run of app.py                      *)
(*   SpecConcurrent  two ingestion runs launched at any time, interleaving *)
(*                 step by step against an index that starts empty         *)
(***************************************************************************)
EXTENDS Integers, Sequences, FiniteSets, TLC

VARIABLES
    indexState,     \* the index of the service: "absent", "provisioning", "ready"
    index,          \* the records of the index: id -> metadata
    others,         \* how many more records the index holds, of other corpora
    directory,      \* data/<subdir> -> the documents PyPDFDirectoryLoader loads from it
    run,            \* per ingestion run: the locals of main() and its position
    upsertLog,      \* the index.upsert calls issued so far, in order
    san,            \* to_ascii_id: input, position and results
    dedup,          \* load_new_documents: inputs and result
    session_state,  \* st.session_state of app.py
    app             \* app.py: position of the script run, the chain's calls

vars == <<indexState, index, others, directory, run, upsertLog, san, dedup, session_state, app>>

(***************************************************************************)
(* Bounds of the model.                                                    *)
(***************************************************************************)
MaxLen == 3             \* longest string given to to_ascii_id in SpecSanitize
MaxDocs == 4            \* longest document list given to load_new_documents
MaxChunks == 3          \* Spec: most chunks the chunker makes of the documents of one run
MaxBatches == 2         \* SpecUpsert: chunk lists of up to MaxBatches full batches and one more chunk
MaxTurns == 2           \* app.py: questions answered per session

(***************************************************************************)
(* Sequences and dictionaries.                                             *)
(***************************************************************************)
Min(a, b) == IF a < b THEN a ELSE b

RECURSIVE SelectChars(_, _)
\* the characters of s that are in the set keep, in order
SelectChars(s, keep) ==
    IF s = <<>> THEN <<>>
    ELSE (IF Head(s) \in keep THEN <<Head(s)>> ELSE <<>>) \o SelectChars(Tail(s), keep)

RECURSIVE Flatten(_)
Flatten(ss) == IF ss = <<>> THEN <<>> ELSE Head(ss) \o Flatten(Tail(ss))

RECURSIVE Sum(_)
Sum(s) == IF s = <<>> THEN 0 ELSE Head(s) + Sum(Tail(s))

\* dict.get(key, default)
Get(d, key, default) == IF key \in DOMAIN d THEN d[key] ELSE default

\* the dictionary d with d[key] = value set
Put(d, key, value) == [k \in DOMAIN d \cup {key} |-> IF k = key THEN value ELSE d[k]]

(***************************************************************************)
(* Characters. A string is a sequence of characters; a character is a      *)
(* one-letter string, or the name of its code point.                       *)
(***************************************************************************)
Letters == {"a", "b", "c", "d", "e", "f", "g", "h", "i", "j", "k", "l", "m",
            "n", "o", "p", "q", "r", "s", "t", "u", "v", "w", "x", "y", "z"}
Digits == {"0", "1", "2", "3", "4", "5", "6", "7", "8", "9"}
AsciiWord == Letters \cup Digits \cup {"_"}
\* ASCII characters that \s matches in a str pattern: space, \t\n\v\f\r and \x1c-\x1f
AsciiSpace == {" ", "TAB", "LF", "U+001F"}
Brackets == {"(", ")", "[", "]", "{", "}"}
AsciiOther == {".", ",", ":", "/"}
Ascii == AsciiWord \cup AsciiSpace \cup {"-"} \cup Brackets \cup AsciiOther
\* e-acute, sharp s, the fi ligature: non-ASCII characters that \w matches
NonAsciiWord == {"U+00E9", "U+00DF", "U+FB01"}
\* the no-break space: a non-ASCII character that \s matches
NonAsciiSpace == {"U+00A0"}
\* the combining acute accent: matches neither \w nor \s
NonAsciiOther == {"U+0301"}

WordChars == AsciiWord \cup NonAsciiWord
SpaceChars == AsciiSpace \cup NonAsciiSpace
Chars == Ascii \cup NonAsciiWord \cup NonAsciiSpace \cup NonAsciiOther
\* what [^\w\s-] leaves, and what [\(\)\[\]\{\}] leaves
WordSpaceHyphen == WordChars \cup SpaceChars \cup {"-"}
NotBracket == Chars \ Brackets

\* unicodedata.normalize('NFKD', c) of one character
NFKDChar(c) ==
    CASE c = "U+00E9" -> <<"e", "U+0301">>
      [] c = "U+FB01" -> <<"f", "i">>
      [] c = "U+00A0" -> <<" ">>
      [] OTHER -> <<c>>

RECURSIVE NFKD(_)
NFKD(text) == IF text = <<>> THEN <<>> ELSE NFKDChar(Head(text)) \o NFKD(Tail(text))

\* re.sub(r'[^\x00-\x7F]+', '', text)
RemoveNonAscii(text) == SelectChars(text, Ascii)

\* re.sub(r'[^\w\s-]', '', text)
RemoveSpecial(text) == SelectChars(text, WordSpaceHyphen)

\* re.sub(r'[\(\)\[\]\{\}]', '', text)
RemoveBrackets(text) == SelectChars(text, NotBracket)

RECURSIVE SpacesToUnderscore(_)
\* re.sub(r'\s+', '_', text): every maximal run of whitespace becomes one underscore
SpacesToUnderscore(text) ==
    IF text = <<>> THEN <<>>
    ELSE IF Head(text) \in SpaceChars
         THEN IF Tail(text) # <<>> /\ Head(Tail(text)) \in SpaceChars
              THEN SpacesToUnderscore(Tail(text))
              ELSE <<"_">> \o SpacesToUnderscore(Tail(text))
         ELSE <<Head(text)>> \o SpacesToUnderscore(Tail(text))

\* a plausible slip: the whitespace step left out
ToAsciiIdKeepingSpaces(text) ==
    RemoveBrackets(RemoveSpecial(RemoveNonAscii(NFKD(text))))

to_ascii_id(text) ==
    SpacesToUnderscore(RemoveBrackets(RemoveSpecial(RemoveNonAscii(NFKD(text)))))

(***************************************************************************)
(* populate_database.py: the data of an ingestion run.                     *)
(***************************************************************************)
Runs == {1, 2}

\* the short random token of an id, str(uuid.uuid4())[:8]: nothing keeps two
\* draws apart
Tokens == {"t1", "t2"}

top_k == 10000
batch_size == 100

\* DOCUMENT_TYPES, in the order the dictionary is iterated
DOCUMENT_TYPES ==
    << <<"01_constitucion", <<"c","o","n","s","t","i","t","u","c","i","o","n">> >>,
       <<"02_convenios_internacionales",
         <<"c","o","n","v","e","n","i","o","_","i","n","t","e","r","n","a","c","i","o","n","a","l">> >>,
       <<"03_leyes", <<"l","e","y">> >>,
       <<"04_codigos", <<"c","o","d","i","g","o">> >> >>

Subdirs == {DOCUMENT_TYPES[k][1] : k \in 1..Len(DOCUMENT_TYPES)}

\* the source files of the model
LeyA == "data/03_leyes/ley 1.pdf"
LeyB == "data/03_leyes/ley_1.pdf"
Codigo == "data/04_codigos/codigo (2).pdf"
Sources == {LeyA, LeyB, Codigo}

\* normalize_filename(os.path.basename(source_path))
normalize_filename(source_path) ==
    CASE source_path = LeyA -> <<"l","e","y"," ","1">>
      [] source_path = LeyB -> <<"l","e","y","_","1">>
      [] source_path = Codigo -> <<"c","o","d","i","g","o"," ","(","2",")">>
      [] OTHER -> <<>>

\* a page as PyPDFDirectoryLoader loads it: page_content and metadata
Page(source, n, label) ==
    [page_content |-> <<source, n>>,
     metadata |-> [source |-> source, page |-> n, page_label |-> label]]

\* a page of a loader version that sets no page_label
PageNoLabel(source, n) ==
    [page_content |-> <<source, n>>, metadata |-> [source |-> source, page |-> n]]

\* the directories the model ingests: subdir -> loaded pages. A subdir outside
\* the domain does not exist.
Directories ==
    { [s \in {"03_leyes"} |-> <<Page(LeyA, 0, "1")>>],
      [s \in {"03_leyes", "04_codigos"} |->
          IF s = "03_leyes" THEN <<Page(LeyA, 0, "1")>> ELSE <<PageNoLabel(Codigo, 0)>>] }

\* a record an earlier run of this program left in the index
EarlierRecord(source, label, token) ==
    [source |-> source, page |-> 0, page_label |-> label,
     filename |-> normalize_filename(source), doc_type |-> <<"l","e","y">>,
     id |-> <<to_ascii_id(<<"l","e","y">>), to_ascii_id(normalize_filename(source)), label, token>>,
     created_at |-> 0, original_filename |-> normalize_filename(source)]

\* a record some other program wrote: it has no filename
ForeignRecord == [source |-> Codigo, id |-> <<"foreign">>]

NoRecords == [id \in {} |-> <<>>]

IndexOf(records) == [id \in {m.id : m \in records} |-> CHOOSE m \in records : m.id = id]

\* what the index may hold when the first run starts
InitialIndexes ==
    { NoRecords,
      IndexOf({EarlierRecord(LeyA, "1", "t1"), ForeignRecord}) }

\* the locals of main() and of the function it is in, and what the run did so
\* far: lookup, how get_existing_files ended; preIndex, the index when the run
\* started; upserted, the sources of the records the index accepted;
\* staleAtFirstUpsert, whether a record of preIndex was in the index when the
\* first upsert was issued; error, the call whose exception ended the run
IdleRun ==
    [pc |-> "idle", reset |-> FALSE, existing_files |-> {}, new_documents |-> <<>>,
     chunks |-> <<>>, vectors_with_ids |-> <<>>, i |-> 0,
     lookup |-> "none", preIndex |-> NoRecords, upserted |-> {},
     staleAtFirstUpsert |-> FALSE, error |-> "none"]

\* main() returns: its locals are gone
Return(locals) ==
    [locals EXCEPT !.pc = "done", !.new_documents = <<>>, !.chunks = <<>>,
                   !.vectors_with_ids = <<>>, !.i = 0, !.preIndex = NoRecords]

\* an exception leaves main(): the run ends with the error of that call
Raise(locals, call) == [Return(locals) EXCEPT !.pc = "failed", !.error = call]

(***************************************************************************)
(* populate_database.py: the functions main() calls.                       *)
(***************************************************************************)
\* get_existing_files, the loop over query_response.matches
SourcesOfMatches(matches) ==
    {m.source : m \in {x \in matches : "filename" \in DOMAIN x /\ "source" \in DOMAIN x}}

\* a plausible slip: the membership test inverted
RECURSIVE LoadExistingDocuments(_, _, _)
LoadExistingDocuments(documents, doc_type, existing_files) ==
    IF documents = <<>> THEN <<>>
    ELSE LET doc == Head(documents)
             source_path == Get(doc.metadata, "source", "")
         IN  (IF source_path \in existing_files
              THEN << [doc EXCEPT !.metadata =
                          Put(Put(@, "filename", normalize_filename(source_path)),
                              "doc_type", doc_type)] >>
              ELSE <<>>)
             \o LoadExistingDocuments(Tail(documents), doc_type, existing_files)

RECURSIVE load_new_documents(_, _, _)
\* the loop over the loaded documents: those whose source is not in
\* existing_files, each given its filename and doc_type
load_new_documents(documents, doc_type, existing_files) ==
    IF documents = <<>> THEN <<>>
    ELSE LET doc == Head(documents)
             source_path == Get(doc.metadata, "source", "")
         IN  (IF source_path \notin existing_files
              THEN << [doc EXCEPT !.metadata =
                          Put(Put(@, "filename", normalize_filename(source_path)),
                              "doc_type", doc_type)] >>
              ELSE <<>>)
             \o load_new_documents(Tail(documents), doc_type, existing_files)

\* a plausible slip: the documents are loaded without the set of existing files
LoadAllIgnoringExisting(types, dir, existing_files) ==
    Flatten([k \in 1..Len(types) |->
                IF types[k][1] \in DOMAIN dir
                THEN load_new_documents(dir[types[k][1]], types[k][2], {})
                ELSE <<>>])

RECURSIVE LoadAll(_, _, _)
\* main(), the loop over DOCUMENT_TYPES: the new documents of every subdir that exists
LoadAll(types, dir, existing_files) ==
    IF types = <<>> THEN <<>>
    ELSE (IF Head(types)[1] \in DOMAIN dir
          THEN load_new_documents(dir[Head(types)[1]], Head(types)[2], existing_files)
          ELSE <<>>)
         \o LoadAll(Tail(types), dir, existing_files)

\* split_documents: counts[k] chunks of document k, each with a copy of its
\* metadata. The text is not modelled: the page_content of a chunk names the
\* page it was cut from.
SplitDocuments(documents, counts) ==
    Flatten([k \in 1..Len(documents) |->
                [c \in 1..counts[k] |->
                    [page_content |-> documents[k].page_content,
                     metadata |-> documents[k].metadata]]])

\* chunk_id = f"{ascii_doc_type}:{ascii_source}:{page}:{unique_id}"
ChunkId(metadata, unique_id) ==
    << to_ascii_id(Get(metadata, "doc_type", <<"u","n","k","n","o","w","n">>)),
       to_ascii_id(Get(metadata, "filename", <<"u","n","k","n","o","w","n">>)),
       Get(metadata, "page_label", "0"),
       unique_id >>

\* add_to_pinecone, the body of the loop over the chunks
AnnotateChunk(chunk, unique_id, timestamp) ==
    LET source == Get(chunk.metadata, "filename", <<"u","n","k","n","o","w","n">>)
        page == Get(chunk.metadata, "page_label", "0")
        doc_type == Get(chunk.metadata, "doc_type", <<"u","n","k","n","o","w","n">>)
        full_text == <<doc_type, source, page, chunk.page_content>>
    IN  [page_content |-> full_text,
         metadata |->
            Put(Put(Put(Put(chunk.metadata, "id", ChunkId(chunk.metadata, unique_id)),
                        "created_at", timestamp),
                    "original_filename", source),
                "text", full_text)]

\* vectors_with_ids: one record per chunk, in chunk order (the embedding is left out)
VectorsWithIds(chunks) ==
    [k \in 1..Len(chunks) |->
        LET metadata == chunks[k].metadata IN [id |-> metadata["id"], metadata |-> metadata]]

\* a plausible slip: the slice one record short
ShortBatch(vectors, i) == SubSeq(vectors, i + 1, Min(i + batch_size - 1, Len(vectors)))

\* vectors_with_ids[i:i+batch_size]
Batch(vectors, i) == SubSeq(vectors, i + 1, Min(i + batch_size, Len(vectors)))

\* a plausible slip: a write that skips the records of a source the index
\* holds already
UpsertUnlessSourceIndexed(idx, batch) ==
    LET held == {idx[id].source : id \in DOMAIN idx}
        fresh == {k \in 1..Len(batch) : batch[k].metadata["source"] \notin held}
    IN  [id \in DOMAIN idx \cup {batch[k].id : k \in fresh} |->
            LET ks == {k \in fresh : batch[k].id = id}
            IN  IF ks = {} THEN idx[id]
                ELSE batch[CHOOSE k \in ks : \A l \in ks : l <= k].metadata]

\* the index after index.upsert(vectors=batch): a record replaces the one of
\* its id, the last of the batch with that id staying
Upsert(idx, batch) ==
    [id \in DOMAIN idx \cup {batch[k].id : k \in 1..Len(batch)} |->
        LET ks == {k \in 1..Len(batch) : batch[k].id = id}
        IN  IF ks = {} THEN idx[id]
            ELSE batch[CHOOSE k \in ks : \A l \in ks : l <= k].metadata]

(***************************************************************************)
(* populate_database.py: main(), one action per step of a run. Runs share  *)
(* the index and nothing else; nothing keeps two runs apart.               *)
(***************************************************************************)
appVars == <<san, dedup, session_state, app>>
otherVars == <<others, appVars>>

\* main(): the arguments are parsed. The runs of this specification are
\* launched one after the other, run 1 first.
Start(r) ==
    /\ run[r].pc = "idle"
    /\ \A q \in Runs : q < r => run[q].pc \in {"done", "failed"}
    /\ \E flag \in BOOLEAN :
          run' = [run EXCEPT ![r] =
                     [@ EXCEPT !.pc = IF flag THEN "clear" ELSE "ensure",
                               !.reset = flag,
                               !.preIndex = index]]
    /\ UNCHANGED <<indexState, index, directory, upsertLog, otherVars>>

\* clear_database: delete_all when the index is listed; an exception of
\* list_indexes or delete is printed and the run goes on
clear_database(r) ==
    /\ run[r].pc = "clear"
    /\ \E raised \in BOOLEAN :
          IF ~raised /\ indexState # "absent"
          THEN index' = NoRecords /\ others' = 0
          ELSE UNCHANGED <<index, others>>
    /\ run' = [run EXCEPT ![r].pc = "ensure"]
    /\ UNCHANGED <<indexState, directory, upsertLog, appVars>>

\* where main() goes on after ensure_index_exists
AfterEnsure(r) == IF run[r].reset THEN "load" ELSE "lookup"

\* ensure_index_exists: list_indexes and the test of the name
ensure_index_exists(r) ==
    /\ run[r].pc = "ensure"
    /\ run' = [run EXCEPT ![r].pc = IF indexState = "absent" THEN "create" ELSE AfterEnsure(r)]
    /\ UNCHANGED <<indexState, index, directory, upsertLog, otherVars>>

\* ensure_index_exists: create_index; the service refuses a name that exists
\* by now, and provisions a new index asynchronously
create_index(r) ==
    /\ run[r].pc = "create"
    /\ IF indexState = "absent"
       THEN /\ indexState' = "provisioning"
            /\ index' = NoRecords
            /\ others' = 0
            /\ run' = [run EXCEPT ![r].pc = "sleep"]
       ELSE /\ run' = [run EXCEPT ![r] = Raise(@, "create_index")]
            /\ UNCHANGED <<indexState, index, others>>
    /\ UNCHANGED <<directory, upsertLog, appVars>>

\* ensure_index_exists: time.sleep(60); the state of the index is not read
Sleep(r) ==
    /\ run[r].pc = "sleep"
    /\ run' = [run EXCEPT ![r].pc = AfterEnsure(r)]
    /\ UNCHANGED <<indexState, index, directory, upsertLog, otherVars>>

\* the service: a provisioning index becomes ready, whenever it does
IndexReady ==
    /\ indexState = "provisioning"
    /\ indexState' = "ready"
    /\ UNCHANGED <<index, directory, run, upsertLog, otherVars>>

\* index.query(top_k=top_k): the ids of the records the query may answer with.
\* It answers with top_k records, or with all when the index holds fewer;
\* which records it leaves out of a larger index, the service decides.
Matches ==
    {ids \in SUBSET DOMAIN index :
        /\ Cardinality(ids) <= top_k
        /\ Cardinality(ids) >= Min(top_k, Cardinality(DOMAIN index) + others) - others}

\* a plausible slip: the exception of the query is not caught
GetExistingFilesRaising(r) ==
    /\ run[r].pc = "lookup"
    /\ \/ run' = [run EXCEPT ![r] = Raise([@ EXCEPT !.lookup = "raised"], "query")]
       \/ /\ indexState # "absent"
          /\ \E ids \in Matches :
                /\ run' = [run EXCEPT ![r] =
                              [@ EXCEPT !.pc = "load",
                                        !.existing_files = SourcesOfMatches({index[id] : id \in ids}),
                                        !.lookup = "ok"]]
    /\ UNCHANGED <<indexState, index, directory, upsertLog, otherVars>>

\* get_existing_files: the query raises and the set is empty, or it answers
\* and the set holds the sources of the matches
get_existing_files(r) ==
    /\ run[r].pc = "lookup"
    /\ \/ run' = [run EXCEPT ![r] =
                     [@ EXCEPT !.pc = "load", !.existing_files = {}, !.lookup = "raised"]]
       \/ /\ indexState # "absent"
          /\ \E ids \in Matches :
                /\ run' = [run EXCEPT ![r] =
                              [@ EXCEPT !.pc = "load",
                                        !.existing_files = SourcesOfMatches({index[id] : id \in ids}),
                                        !.lookup = "ok"]]
    /\ UNCHANGED <<indexState, index, directory, upsertLog, otherVars>>

\* main(): the loop over DOCUMENT_TYPES, and the test of new_documents
LoadDocuments(r) ==
    /\ run[r].pc = "load"
    /\ LET new_documents == LoadAll(DOCUMENT_TYPES, directory, run[r].existing_files)
       IN  run' = [run EXCEPT ![r] =
                      IF new_documents # <<>>
                      THEN [@ EXCEPT !.pc = "split", !.new_documents = new_documents]
                      ELSE Return(@)]
    /\ UNCHANGED <<indexState, index, directory, upsertLog, otherVars>>

\* split_documents: the chunker makes at least one chunk of a document
split_documents(r) ==
    /\ run[r].pc = "split"
    /\ \E counts \in [1..Len(run[r].new_documents) -> 1..MaxChunks] :
          /\ Sum(counts) <= MaxChunks
          /\ run' = [run EXCEPT ![r] =
                        [@ EXCEPT !.pc = "annotate",
                                  !.chunks = SplitDocuments(run[r].new_documents, counts)]]
    /\ UNCHANGED <<indexState, index, directory, upsertLog, otherVars>>

\* add_to_pinecone: the loop over the chunks; every chunk draws its token
AnnotateChunks(r) ==
    /\ run[r].pc = "annotate"
    /\ \E unique_id \in [1..Len(run[r].chunks) -> Tokens] :
          run' = [run EXCEPT ![r] =
                     [@ EXCEPT !.pc = "embed",
                               !.chunks = [k \in 1..Len(run[r].chunks) |->
                                              AnnotateChunk(run[r].chunks[k], unique_id[k], r)]]]
    /\ UNCHANGED <<indexState, index, directory, upsertLog, otherVars>>

\* add_to_pinecone: embed_documents (it may raise) and vectors_with_ids
EmbedDocuments(r) ==
    /\ run[r].pc = "embed"
    /\ \/ run' = [run EXCEPT ![r] = Raise(@, "embed_documents")]
       \/ run' = [run EXCEPT ![r] =
                     [@ EXCEPT !.pc = "upsert",
                               !.vectors_with_ids = VectorsWithIds(run[r].chunks),
                               !.i = 0]]
    /\ UNCHANGED <<indexState, index, directory, upsertLog, otherVars>>

\* whether this is the first upsert of the run and a record the index held
\* when the run started is still in it
Stale(r) ==
    /\ \A k \in 1..Len(upsertLog) : upsertLog[k].run # r
    /\ \E id \in DOMAIN run[r].preIndex :
          id \in DOMAIN index /\ index[id] = run[r].preIndex[id]

\* an index.upsert call: the run, the position in vectors_with_ids its batch
\* was cut at, the number of records, whether the index accepted them and
\* whether it was ready
LogEntry(r, batch, ok) ==
    [run |-> r, i |-> run[r].i, n |-> Len(batch), ok |-> ok, ready |-> indexState = "ready"]

SourcesOf(batch) == {batch[k].metadata["source"] : k \in 1..Len(batch)}

\* a plausible slip: a failed batch is skipped and the loop goes on
UpsertRaisesAndContinues(r) ==
    /\ run[r].pc = "upsert"
    /\ run[r].i < Len(run[r].vectors_with_ids)
    /\ LET batch == Batch(run[r].vectors_with_ids, run[r].i)
       IN  /\ upsertLog' = Append(upsertLog, LogEntry(r, batch, FALSE))
           /\ run' = [run EXCEPT ![r] =
                         [@ EXCEPT !.i = @ + batch_size,
                                   !.staleAtFirstUpsert = @ \/ Stale(r)]]
    /\ UNCHANGED <<indexState, index, directory, otherVars>>

\* add_to_pinecone: index.upsert of the next batch succeeds
UpsertBatch(r) ==
    /\ run[r].pc = "upsert"
    /\ run[r].i < Len(run[r].vectors_with_ids)
    /\ LET batch == Batch(run[r].vectors_with_ids, run[r].i)
       IN  /\ index' = Upsert(index, batch)
           /\ upsertLog' = Append(upsertLog, LogEntry(r, batch, TRUE))
           /\ run' = [run EXCEPT ![r] =
                         [@ EXCEPT !.i = @ + batch_size,
                                   !.upserted = @ \cup SourcesOf(batch),
                                   !.staleAtFirstUpsert = @ \/ Stale(r)]]
    /\ UNCHANGED <<indexState, directory, otherVars>>

\* add_to_pinecone: index.upsert of the next batch raises; nothing catches it
UpsertRaises(r) ==
    /\ run[r].pc = "upsert"
    /\ run[r].i < Len(run[r].vectors_with_ids)
    /\ LET batch == Batch(run[r].vectors_with_ids, run[r].i)
       IN  /\ upsertLog' = Append(upsertLog, LogEntry(r, batch, FALSE))
           /\ run' = [run EXCEPT ![r] =
                         Raise([@ EXCEPT !.staleAtFirstUpsert = @ \/ Stale(r)], "upsert")]
    /\ UNCHANGED <<indexState, index, directory, otherVars>>

\* add_to_pinecone: the loop over the batches ends
Finish(r) ==
    /\ run[r].pc = "upsert"
    /\ run[r].i >= Len(run[r].vectors_with_ids)
    /\ run' = [run EXCEPT ![r] = Return(@)]
    /\ UNCHANGED <<indexState, index, directory, upsertLog, otherVars>>

IdleSanitize == [pc |-> "idle", text |-> <<>>, once |-> <<>>, twice |-> <<>>]
IdleDedup ==
    [pc |-> "idle", documents |-> <<>>, doc_type |-> <<>>, existing_files |-> {},
     new_documents |-> <<>>]
IdleSession == [k \in {} |-> <<>>]
\* app.py between two script runs: submitted and question, the form as it was
\* sent; before, st.session_state when the form was read; chain, how far the
\* conversation chain got in this script run; warning, whether st.warning was shown
IdleApp == [pc |-> "idle", submitted |-> FALSE, question |-> <<>>, before |-> IdleSession,
            chain |-> "none", warning |-> FALSE]

OthersIdle ==
    /\ san = IdleSanitize
    /\ dedup = IdleDedup
    /\ session_state = IdleSession
    /\ app = IdleApp

Init ==
    /\ indexState \in {"absent", "ready"}
    /\ index \in (IF indexState = "ready" THEN InitialIndexes ELSE {NoRecords})
    /\ others \in (IF index # NoRecords THEN {0, top_k} ELSE {0})
    /\ directory \in Directories
    /\ run = [r \in Runs |-> IdleRun]
    /\ upsertLog = <<>>
    /\ OthersIdle

Next ==
    \/ IndexReady
    \/ \E r \in Runs :
          \/ Start(r)
          \/ clear_database(r)
          \/ ensure_index_exists(r)
          \/ create_index(r)
          \/ Sleep(r)
          \/ get_existing_files(r)
          \/ LoadDocuments(r)
          \/ split_documents(r)
          \/ AnnotateChunks(r)
          \/ EmbedDocuments(r)
          \/ UpsertBatch(r)
          \/ UpsertRaises(r)
          \/ Finish(r)

Spec == Init /\ [][Next]_vars

(***************************************************************************)
(* Claims about the ingestion runs, under Spec.                            *)
(***************************************************************************)
CallsOf(r) == SelectSeq(upsertLog, LAMBDA call : call.run = r)

\* the pages the loader finds under the category folders, in the order main() visits them
AllPages == LoadAll(DOCUMENT_TYPES, directory, {})

PageContents(documents) == [k \in 1..Len(documents) |-> documents[k].page_content]

DirectorySources == {AllPages[k].metadata["source"] : k \in 1..Len(AllPages)}

\* run 1 ingested the directory and ended, run 2 ingests it again, neither
\* with --reset, and get_existing_files of run 2 has returned
IngestedTwice ==
    /\ run[1].pc = "done" /\ ~run[1].reset
    /\ run[2].pc # "idle" /\ ~run[2].reset
    /\ run[2].lookup # "none"

\* run 2 selects no new document and issues no upsert
SecondRunIdle == run[2].pc \in {"load", "done"} /\ CallsOf(2) = <<>>

\* C1 as stated: when the directory is ingested twice without reset and the
\* lookup of the second run returns every source whose records the first run
\* upserted, the second run selects no new document and issues no upsert.
\* (Read in its favour: the first run did upsert, and the query of the second
\* run did not raise.)
C1_RerunSelectsNothing ==
    ( /\ IngestedTwice
      /\ run[1].upserted # {} /\ run[2].lookup = "ok"
      /\ run[1].upserted \subseteq run[2].existing_files )
    => SecondRunIdle

\* C1 as amended: the same, when the lookup of the second run also returns
\* every source of the directory that the first run skipped as already indexed.
C1_RerunSelectsNothingAmended ==
    ( /\ IngestedTwice
      /\ run[1].upserted \subseteq run[2].existing_files
      /\ (run[1].existing_files \cap DirectorySources) \subseteq run[2].existing_files )
    => SecondRunIdle

\* the second run ended having selected nothing, after a first run that upserted
C1_Witness ==
    /\ IngestedTwice
    /\ run[1].upserted # {}
    /\ run[1].upserted \subseteq run[2].existing_files
    /\ (run[1].existing_files \cap DirectorySources) \subseteq run[2].existing_files
    /\ run[2].pc = "done"
    /\ Len(CallsOf(1)) > 0

\* C2: in a run started with --reset, no record the index held when the run
\* started is in the index when the run issues its first upsert.
C2_ResetClearsBeforeIngestion ==
    \A r \in Runs : run[r].reset => ~run[r].staleAtFirstUpsert

\* C5: when the query of get_existing_files raises, the set is empty, the
\* exception does not end the run, and every page under the category folders
\* is selected as new (and, in a run that ends well, upserted).
C5_LookupFailureIngestsEverything ==
    \A r \in Runs :
        run[r].lookup = "raised" =>
            /\ run[r].existing_files = {}
            /\ run[r].error # "query"
            /\ run[r].pc \in {"load", "split", "annotate", "embed", "upsert", "done", "failed"}
            /\ run[r].pc = "split" => PageContents(run[r].new_documents) = PageContents(AllPages)
            /\ run[r].pc = "done" => run[r].upserted = DirectorySources

\* the query raised while the index held a source of the directory, and the
\* run selected every page all the same
C5_Witness ==
    \E r \in Runs :
        /\ run[r].lookup = "raised"
        /\ run[r].pc = "split"
        /\ \E id \in DOMAIN index :
              "filename" \in DOMAIN index[id] /\ index[id]["source"] \in DirectorySources
        /\ Len(run[r].new_documents) = Len(AllPages)
        /\ Len(AllPages) > 1

\* the chunks of a run that share doc_type, filename and page_label
SameLabels(c, d) ==
    /\ Get(c.metadata, "doc_type", <<>>) = Get(d.metadata, "doc_type", <<>>)
    /\ Get(c.metadata, "filename", <<>>) = Get(d.metadata, "filename", <<>>)
    /\ Get(c.metadata, "page_label", "0") = Get(d.metadata, "page_label", "0")

\* C7: two distinct chunks of one add_to_pinecone call that share category,
\* filename and page label have different ids.
C7_IdsDifferWithinRun ==
    \A r \in Runs :
        run[r].pc \in {"embed", "upsert"} =>
            \A k, l \in 1..Len(run[r].chunks) :
                (k # l /\ SameLabels(run[r].chunks[k], run[r].chunks[l]))
                    => run[r].chunks[k].metadata["id"] # run[r].chunks[l].metadata["id"]

\* C8: no upsert is issued before the index reports ready.
C8_NoUpsertBeforeReady ==
    \A k \in 1..Len(upsertLog) : upsertLog[k].ready

(***************************************************************************)
(* SpecUpsert: add_to_pinecone from embed_documents on, for one run and a  *)
(* list of up to MaxBatches full batches and one more chunk. The chunks    *)
(* carry the ids the loop over the chunks gave them, here all different.   *)
(***************************************************************************)
LongChunks(n) ==
    [k \in 1..n |-> [page_content |-> k, metadata |-> [id |-> <<k>>, source |-> LeyA]]]

InitUpsert ==
    /\ indexState = "ready"
    /\ index = NoRecords
    /\ others = 0
    /\ directory = [s \in {} |-> <<>>]
    /\ \E n \in 0..(MaxBatches * batch_size + 1) :
          run = [r \in Runs |->
                    IF r = 1 THEN [IdleRun EXCEPT !.pc = "embed", !.chunks = LongChunks(n)]
                    ELSE IdleRun]
    /\ upsertLog = <<>>
    /\ OthersIdle

NextUpsert ==
    \/ EmbedDocuments(1)
    \/ UpsertBatch(1)
    \/ UpsertRaises(1)
    \/ Finish(1)

SpecUpsert == InitUpsert /\ [][NextUpsert]_vars

\* the loop over the batches of run r has ended
LoopEnded(r) == run[r].pc = "upsert" /\ run[r].i >= Len(run[r].vectors_with_ids)

\* C3: when the loop over the batches of N records ends, ceil(N/100) upserts
\* were issued and accepted, each of 1 to 100 records, the k-th of them cut at
\* position 100*(k-1) and ending where the next begins (the last at N), and
\* the index holds the N records.
C3_BatchedUpsertExact ==
    \A r \in Runs :
        LoopEnded(r) =>
            LET vectors == run[r].vectors_with_ids
                N == Len(vectors)
                calls == CallsOf(r)
            IN  /\ Len(calls) = (N + 99) \div 100
                /\ \A k \in 1..Len(calls) :
                      /\ calls[k].ok
                      /\ calls[k].n >= 1 /\ calls[k].n <= 100
                      /\ calls[k].i = 100 * (k - 1)
                      /\ calls[k].i + calls[k].n = (IF k < Len(calls) THEN calls[k + 1].i ELSE N)
                /\ \A j \in 1..N :
                      vectors[j].id \in DOMAIN index /\ index[vectors[j].id] = vectors[j].metadata
                /\ Cardinality(DOMAIN index) = N

\* the loop ended after two full batches and a third of one record
C3_Witness ==
    /\ LoopEnded(1)
    /\ Len(run[1].vectors_with_ids) = 201
    /\ Len(CallsOf(1)) = 3
    /\ CallsOf(1)[3].n = 1

\* C4: when an upsert raises, it is the last call of its run, every call of
\* the run before it was accepted, the run has ended with that error, and the
\* index holds the records of the batches before it, no more and no less.
C4_FailFastNoRollback ==
    \A k \in 1..Len(upsertLog) :
        ~upsertLog[k].ok =>
            LET r == upsertLog[k].run
                before == LongChunks(upsertLog[k].i)
            IN  /\ \A l \in 1..Len(upsertLog) :
                      upsertLog[l].run = r => (l <= k /\ (l < k => upsertLog[l].ok))
                /\ run[r].pc = "failed"
                /\ run[r].error = "upsert"
                /\ \A j \in 1..Len(before) :
                      before[j].metadata["id"] \in DOMAIN index
                      /\ index[before[j].metadata["id"]] = before[j].metadata
                /\ Cardinality(DOMAIN index) = Len(before)

\* the third batch raised and the two before it are in the index
C4_Witness ==
    /\ Len(upsertLog) = 3
    /\ ~upsertLog[3].ok
    /\ upsertLog[3].i = 200
    /\ Cardinality(DOMAIN index) = 200

(***************************************************************************)
(* SpecSanitize: to_ascii_id applied to a string, and to its result.       *)
(***************************************************************************)
IngestIdle ==
    /\ indexState = "absent"
    /\ index = NoRecords
    /\ others = 0
    /\ directory = [s \in {} |-> <<>>]
    /\ run = [r \in Runs |-> IdleRun]
    /\ upsertLog = <<>>

ingestVars == <<indexState, index, others, directory, run, upsertLog>>

\* the characters of the strings sanitized: one or two of every kind
SanitizeAlphabet ==
    {"a", "_", "-", " ", "U+001F", "(", "]", ".", "U+00E9", "U+00DF", "U+FB01", "U+00A0"}

Strings(alphabet, n) == UNION {[1..m -> alphabet] : m \in 0..n}

InitSanitize ==
    /\ IngestIdle
    /\ \E text \in Strings(SanitizeAlphabet, MaxLen) :
          san = [IdleSanitize EXCEPT !.pc = "input", !.text = text]
    /\ dedup = IdleDedup
    /\ session_state = IdleSession
    /\ app = IdleApp

Sanitize ==
    /\ san.pc = "input"
    /\ san' = [san EXCEPT !.pc = "once", !.once = to_ascii_id(san.text)]
    /\ UNCHANGED <<ingestVars, dedup, session_state, app>>

SanitizeAgain ==
    /\ san.pc = "once"
    /\ san' = [san EXCEPT !.pc = "twice", !.twice = to_ascii_id(san.once)]
    /\ UNCHANGED <<ingestVars, dedup, session_state, app>>

NextSanitize == Sanitize \/ SanitizeAgain

SpecSanitize == InitSanitize /\ [][NextSanitize]_vars

\* C10: to_ascii_id of a result of to_ascii_id is that result, and a result
\* holds no whitespace, no bracket and no non-ASCII character.
C10_SanitizeIdempotentAscii ==
    /\ san.pc \in {"once", "twice"} =>
          \A k \in 1..Len(san.once) :
              /\ san.once[k] \notin SpaceChars
              /\ san.once[k] \notin Brackets
              /\ san.once[k] \in Ascii
    /\ san.pc = "twice" => san.twice = san.once

\* a string with whitespace, a bracket and a non-ASCII letter was sanitized
\* twice, and something of it is left
C10_Witness ==
    /\ san.pc = "twice"
    /\ \E k \in 1..Len(san.text) : san.text[k] \in SpaceChars
    /\ \E k \in 1..Len(san.text) : san.text[k] \in Brackets
    /\ \E k \in 1..Len(san.text) : san.text[k] \notin Ascii
    /\ san.once # <<>>

(***************************************************************************)
(* SpecDedup: load_new_documents on a list of loaded pages and a set of    *)
(* existing files.                                                         *)
(***************************************************************************)
\* the pages a loader may give
LoadedPages ==
    {Page(LeyA, 0, "1"), Page(LeyA, 1, "2"), Page(LeyB, 0, "1"), Page(LeyB, 1, "2"),
     PageNoLabel(Codigo, 0)}

\* the lists of up to n different pages
PageLists(n) ==
    {l \in Strings(LoadedPages, n) : \A j, k \in 1..Len(l) : j # k => l[j] # l[k]}

InitDedup ==
    /\ IngestIdle
    /\ san = IdleSanitize
    /\ \E documents \in PageLists(MaxDocs), existing_files \in SUBSET Sources :
          dedup = [IdleDedup EXCEPT !.pc = "input", !.documents = documents,
                                    !.doc_type = <<"l","e","y">>,
                                    !.existing_files = existing_files]
    /\ session_state = IdleSession
    /\ app = IdleApp

LoadNewDocuments ==
    /\ dedup.pc = "input"
    /\ dedup' = [dedup EXCEPT !.pc = "loaded",
                              !.new_documents =
                                  load_new_documents(dedup.documents, dedup.doc_type,
                                                     dedup.existing_files)]
    /\ UNCHANGED <<ingestVars, san, session_state, app>>

NextDedup == LoadNewDocuments

SpecDedup == InitDedup /\ [][NextDedup]_vars

\* the positions of the documents whose source is not an existing file
KeptPositions == {k \in 1..Len(dedup.documents) :
                     dedup.documents[k].metadata["source"] \notin dedup.existing_files}

\* C9: the result of load_new_documents has one document for every loaded
\* document whose source is not in the existing set, and none else: its j-th
\* document is the j-th of those, with the text and the metadata it was loaded with.
C9_DedupIsOrderedDifference ==
    dedup.pc = "loaded" =>
        /\ Len(dedup.new_documents) = Cardinality(KeptPositions)
        /\ \A k \in KeptPositions :
              LET j == Cardinality({m \in KeptPositions : m <= k})
                  loaded == dedup.documents[k]
                  new == dedup.new_documents[j]
              IN  /\ new.page_content = loaded.page_content
                  /\ \A key \in DOMAIN loaded.metadata : new.metadata[key] = loaded.metadata[key]

\* of four documents the second is of an existing file and the others, of two
\* files, are kept
C9_Witness ==
    /\ dedup.pc = "loaded"
    /\ Len(dedup.documents) = 4
    /\ KeptPositions = {1, 3, 4}
    /\ Len(dedup.new_documents) = 3
    /\ dedup.new_documents[1].metadata["source"] # dedup.new_documents[3].metadata["source"]

(***************************************************************************)
(* SpecApp: app.py. Streamlit runs main() from the top on every            *)
(* interaction; st.session_state outlives the script runs.                 *)
(***************************************************************************)
\* the questions typed into the form
Questions ==
    { <<>>, <<" ">>, <<"TAB", " ">>, <<"U+00A0">>, <<"a">>, <<" ", "b", " ">> }

\* what the sidebar's multiselects give
SidebarSelections == { <<>>, <<LeyA>>, <<LeyA, Codigo>> }

RECURSIVE LStrip(_)
LStrip(text) ==
    IF text # <<>> /\ Head(text) \in SpaceChars THEN LStrip(Tail(text)) ELSE text

RECURSIVE RStrip(_)
RStrip(text) ==
    IF text # <<>> /\ text[Len(text)] \in SpaceChars
    THEN RStrip(SubSeq(text, 1, Len(text) - 1))
    ELSE text

\* str.strip()
Strip(text) == RStrip(LStrip(text))

\* setup(): every key is set once per session
setup(state) ==
    LET s1 == IF "vectorstore" \in DOMAIN state THEN state
              ELSE Put(state, "vectorstore", "load_pinecone()")
        s2 == IF "chat_history" \in DOMAIN s1 THEN s1 ELSE Put(s1, "chat_history", <<>>)
        s3 == IF "memory" \in DOMAIN s2 THEN s2 ELSE Put(s2, "memory", "ConversationBufferMemory")
    IN  IF "selected_sources" \in DOMAIN s3 THEN s3 ELSE Put(s3, "selected_sources", <<"todos">>)

\* build_sidebar()
build_sidebar(state, select_all, selected_docs) ==
    Put(state, "selected_sources",
        IF select_all \/ selected_docs = <<>> THEN <<"todos">> ELSE selected_docs)

\* main() up to the test of the form: setup(), build_sidebar(), the form
ScriptRun ==
    /\ app.pc = "idle"
    /\ \E select_all \in BOOLEAN, selected_docs \in SidebarSelections,
          submit_button \in BOOLEAN, user_question \in Questions :
          LET state == build_sidebar(setup(session_state),
                                     select_all, IF select_all THEN <<>> ELSE selected_docs)
          IN  /\ submit_button => Len(state["chat_history"]) < 2 * MaxTurns
              /\ session_state' = state
              /\ app' = [pc |-> IF submit_button /\ user_question # <<>> THEN "handle" ELSE "skipped",
                         submitted |-> submit_button,
                         question |-> IF submit_button THEN user_question ELSE <<>>,
                         before |-> state, chain |-> "none", warning |-> FALSE]
    /\ UNCHANGED <<ingestVars, san, dedup>>

\* a plausible slip: the question is tested without strip()
HandleQuestionNoStrip ==
    /\ app.pc = "handle"
    /\ IF app.question = <<>>
       THEN /\ app' = [app EXCEPT !.pc = "returned", !.warning = TRUE]
            /\ UNCHANGED session_state
       ELSE \/ /\ app' = [app EXCEPT !.pc = "raised", !.chain = "invoked"]
               /\ UNCHANGED session_state
            \/ /\ \E shown \in BOOLEAN :
                     app' = [app EXCEPT !.pc = IF shown THEN "returned" ELSE "raised",
                                        !.chain = "invoked"]
               /\ session_state' =
                     [session_state EXCEPT !["chat_history"] =
                         @ \o << <<"user", app.question>>, <<"bot", "respuesta">> >>]
    /\ UNCHANGED <<ingestVars, san, dedup>>

\* handle_question(question): a blank question is warned about; otherwise the
\* chain is created and invoked, and it raises or answers; the answer is
\* appended to the history before the sources are shown, which may raise too
handle_question ==
    /\ app.pc = "handle"
    /\ IF Strip(app.question) = <<>>
       THEN /\ app' = [app EXCEPT !.pc = "returned", !.warning = TRUE]
            /\ UNCHANGED session_state
       ELSE \/ /\ app' = [app EXCEPT !.pc = "raised", !.chain = "invoked"]
               /\ UNCHANGED session_state
            \/ /\ \E shown \in BOOLEAN :
                     app' = [app EXCEPT !.pc = IF shown THEN "returned" ELSE "raised",
                                        !.chain = "invoked"]
               /\ session_state' =
                     [session_state EXCEPT !["chat_history"] =
                         @ \o << <<"user", app.question>>, <<"bot", "respuesta">> >>]
    /\ UNCHANGED <<ingestVars, san, dedup>>

\* main(): the history is rendered, or the exception is shown; the script run ends
Render ==
    /\ app.pc \in {"skipped", "returned", "raised"}
    /\ app' = IdleApp
    /\ UNCHANGED <<ingestVars, san, dedup, session_state>>

InitApp ==
    /\ IngestIdle
    /\ san = IdleSanitize
    /\ dedup = IdleDedup
    /\ session_state = IdleSession
    /\ app = IdleApp

NextApp == ScriptRun \/ handle_question \/ Render

SpecApp == InitApp /\ [][NextApp]_vars

\* empty, or whitespace only
IsBlank(question) == \A k \in 1..Len(question) : question[k] \in SpaceChars

\* C6: after a blank question was submitted, no chain was created or invoked,
\* no exception was raised, and st.session_state (the history, the selected
\* sources, the cached vector store) is as it was when the form was read.
C6_BlankQuestionRejected ==
    (app.pc \in {"skipped", "returned", "raised"} /\ app.submitted /\ IsBlank(app.question)) =>
        /\ app.chain = "none"
        /\ app.pc # "raised"
        /\ session_state = app.before

\* handle_question returned from a question of whitespace, in a session with
\* a history and a selection of sources
C6_Witness ==
    /\ app.pc = "returned"
    /\ app.question # <<>> /\ IsBlank(app.question)
    /\ app.warning
    /\ Len(session_state["chat_history"]) > 0
    /\ session_state["selected_sources"] # <<"todos">>

(***************************************************************************)
(* SpecConcurrent: two invocations of populate_database.py, each launched  *)
(* without --reset whenever its operator launches it. The steps of the two *)
(* runs interleave in any order; the index starts without records.         *)
(***************************************************************************)
\* main(): the arguments are parsed, --reset not among them; nothing looks
\* at the other run
Launch(r) ==
    /\ run[r].pc = "idle"
    /\ run' = [run EXCEPT ![r] =
                   [@ EXCEPT !.pc = "ensure", !.reset = FALSE, !.preIndex = index]]
    /\ UNCHANGED <<indexState, index, directory, upsertLog, otherVars>>

\* both runs ingest the same directory, of one category folder
InitConcurrent ==
    /\ indexState \in {"absent", "ready"}
    /\ index = NoRecords
    /\ others = 0
    /\ directory \in {dir \in Directories : DOMAIN dir = {"03_leyes"}}
    /\ run = [r \in Runs |-> IdleRun]
    /\ upsertLog = <<>>
    /\ OthersIdle

NextConcurrent ==
    \/ IndexReady
    \/ \E r \in Runs :
          \/ Launch(r)
          \/ ensure_index_exists(r)
          \/ create_index(r)
          \/ Sleep(r)
          \/ get_existing_files(r)
          \/ LoadDocuments(r)
          \/ split_documents(r)
          \/ AnnotateChunks(r)
          \/ EmbedDocuments(r)
          \/ UpsertBatch(r)
          \/ UpsertRaises(r)
          \/ Finish(r)

SpecConcurrent == InitConcurrent /\ [][NextConcurrent]_vars

\* the tokens run r drew for its chunks
TokensOf(r) ==
    {run[r].vectors_with_ids[k].id[4] : k \in 1..Len(run[r].vectors_with_ids)}

\* the records of run r that carry the source
VectorsOf(r, source) ==
    {k \in 1..Len(run[r].vectors_with_ids) :
        run[r].vectors_with_ids[k].metadata["source"] = source}

\* run r was launched without --reset and its set of existing files lacks
\* the source, which the directory holds
PassedDedup(r, source) ==
    /\ ~run[r].reset
    /\ run[r].pc \notin {"idle", "ensure", "create", "sleep", "lookup"}
    /\ source \in DirectorySources
    /\ source \notin run[r].existing_files

\* the index holds the text of the source under two ids, one written by each run
HeldTwice(source) ==
    \E id1, id2 \in DOMAIN index :
        /\ id1 # id2
        /\ index[id1].source = source /\ index[id2].source = source
        /\ index[id1].created_at = 1 /\ index[id2].created_at = 2
        /\ index[id1].text = index[id2].text

\* C11: nothing keeps two runs apart. A run without --reset whose set of
\* existing files lacks a source of the directory, and that returned, has
\* upserted that source, whatever the other run did meanwhile; and when two
\* such runs have both ended their loops over the batches, with no token
\* drawn by both, every record of each run is in the index as that run wrote
\* it, so the index holds the text of the source twice under different ids.
C11_NoMutualExclusion ==
    \A source \in Sources :
        /\ \A r \in Runs :
              (PassedDedup(r, source) /\ run[r].pc = "done") => source \in run[r].upserted
        /\ ( /\ \A r \in Runs : PassedDedup(r, source) /\ LoopEnded(r)
             /\ TokensOf(1) \cap TokensOf(2) = {} )
           => /\ \A r \in Runs :
                    /\ VectorsOf(r, source) # {}
                    /\ \A k \in 1..Len(run[r].vectors_with_ids) :
                          LET v == run[r].vectors_with_ids[k]
                          IN  v.id \in DOMAIN index /\ index[v.id].created_at = r
              /\ HeldTwice(source)

\* both runs read an index without records of the source (the lookups
\* answered, each before the other run upserted), both upserted it, and the
\* index holds its text twice
C11_Witness ==
    /\ \A r \in Runs :
          /\ PassedDedup(r, LeyA) /\ LoopEnded(r)
          /\ run[r].lookup = "ok"
          /\ LeyA \in run[r].upserted
    /\ \A k \in 1..Len(upsertLog) : upsertLog[k].ok
    /\ HeldTwice(LeyA)

====
